---- MODULE Spec2Model ----
(***************************************************************************)
(* Media-asset-management backend: the directory scanners                  *)
(* (process_directory and the POST /scan route), the thumbnail generators, *)
(* and the persistence layer (assets, processing results, tags,            *)
(* directories) they write to.                                             *)
(*                                                                         *)
(* Modelling conventions.                                                  *)
(*  - The database is the committed tables plus, per request, the          *)
(*    SQLAlchemy session of that request: the rows it has flushed but not  *)
(*    committed, and whether its transaction is usable.  A failed flush    *)
(*    rolls the session's transaction back and leaves the session unusable *)
(*    until rollback() is called.                                          *)
(*  - The database file is SQLite: one session at a time holds uncommitted *)
(*    writes, another writer waits for it.                                 *)
(*  - A file of the media root is described by how the pipeline reacts to  *)
(*    it (its kind); the reaction to a file does not change while the file *)
(*    is unchanged.                                                        *)
(*  - The callers and the model classes of the repository disagree on the  *)
(*    columns of MediaAsset and on the keys of the metadata record; each   *)
(*    handler is modelled with the collaborators it is written against     *)
(*    (the record carries the keys the handler reads, the row the columns  *)
(*    the handler sets).                                                   *)
(***************************************************************************)
EXTENDS Integers, Sequences, FiniteSets, TLC

\* ----------------------------------------------------------------- bounds
MaxFiles == 2
MaxDirs == 1
MaxId == 3
MaxTags == 1
MaxActive == 2
MaxSeconds == 3700
MaxLen == 4
MaxConns == 1
MaxMsgs == 2
MaxTime == 180
MaxFailures == 5
MaxNames == 2
MaxQueued == 3

\* generate_thumbnail(video_path, output_path=None, max_retries=3)
max_retries == 3

Paths == 1..MaxFiles
DirPaths == 1..MaxDirs
Procs == {1, 2}
TagNames == 1..MaxTags

\* How the pipeline reacts to a file of the media root: "ok" is a readable
\* video, "corrupt" a file extract_metadata cannot read, "invalid" a file
\* whose extension validate_path refuses, "dbreject" a file whose row the
\* database refuses.
Kinds == {"absent", "ok", "corrupt", "invalid", "dbreject"}

\* What the prober meets besides: a zero-byte file with a video extension
\* and a readable file that is not a video.
ProbeKinds == {"absent", "ok", "empty", "image", "corrupt", "invalid"}

\* The directories registered for the scan of all directories.
ActivePaths == 1..MaxActive

VARIABLES
    files,      \* filesystem: path -> kind
    thumbs,     \* thumbnails directory: the {stem}_thumb.jpg files present
    assets,     \* committed media_assets rows
    results,    \* committed processing_results rows
    dirs,       \* committed media_directories rows
    tags,       \* committed tags rows (by name, as stored)
    asset_tags, \* committed asset_tags association rows <<asset id, tag>>
    fkOn,       \* whether the SQLite connection enforces foreign keys
    sess,       \* per request: the SQLAlchemy session
    h,          \* per request: the handler's position and locals
    stable,     \* the last completed scan, while nothing changed since
    rescan,     \* row counts around a scan repeated over unchanged state
    lastOp,     \* the tables as they were before the CRUD request in hand
    outFile,    \* the file at a thumbnail call's output path, by size
    th,         \* the thumbnail call in hand: function, position, locals
    prevEnsure, \* the last completed ensure_thumbnail call
    pair,       \* two consecutive ensure_thumbnail calls, once completed
    tw,         \* per worker: a generate_thumbnail call run beside another
    call,       \* a call of a formatting or parsing function: argument, result
    ws,         \* the WebSocket connections and the set active_connections
    cb,         \* a CircuitBreaker, the clock, the calls it has let through
    pm,         \* the ProcessorManager: processors enabled, the last call
    pw          \* the ProcessingManager: its queue and its worker loop

scanVars == <<files, thumbs, assets, results, dirs, tags, asset_tags, fkOn,
              sess, h, stable, rescan, lastOp>>

callVars == <<outFile, th, prevEnsure, pair>>

\* The state of the components beside the scanners and the single
\* thumbnail call.
aiVars == <<cb, pm, pw>>

svcVars == <<tw, call, ws, aiVars>>

\* What a thumbnail step leaves alone, and what a scanner step does.
dbVars == <<scanVars, svcVars>>

thVars == <<callVars, svcVars>>

vars == <<files, thumbs, assets, results, dirs, tags, asset_tags, fkOn,
          sess, h, stable, rescan, lastOp, outFile, th, prevEnsure, pair,
          tw, call, ws, cb, pm, pw>>

\* --------------------------------------------------------------- helpers
Max(S) == IF S = {} THEN 0 ELSE CHOOSE x \in S : \A y \in S : y <= x

\* SQLite INTEGER PRIMARY KEY: one more than the largest rowid in the table.
NewId(rows) == Max({r.id : r \in rows}) + 1

\* The files below a directory (directory d holds the paths from d up, so
\* that directory 1 is the media root and the others are nested in it).
Under(d) == {p \in Paths : p >= d}

\* os.path.splitext(os.path.basename(video_path))[0]: files of different
\* folders may share a stem.
Stem(p) == (p + 1) \div 2

Perms(S) ==
    {f \in [1..Cardinality(S) -> S] : \A i, j \in 1..Cardinality(S) : i # j => f[i] # f[j]}

\* Every enumeration order of at most MaxFiles files.
Seq1 == UNION {Perms(S) : S \in SUBSET Paths}

\* Every order of the registered directories' ids.
Seq1Ids == UNION {Perms(S) : S \in SUBSET (1..MaxId)}

PathsOf(rows) == {r.file_path : r \in rows}

\* stamped: the directories whose last_scanned the session has set and not
\* yet committed.
CleanSession == [st |-> "ok", newA |-> {}, newR |-> {}, stamped |-> {}]

\* names: the tag names a tag request was sent with.
\* steps: what was run for the file in hand, in order; probed: the files
\* extract_metadata was called on; meta: what it returned last; root:
\* whether the scan root existed; queue, passed, stamps: the directories
\* still to scan, those whose pass has returned, and those whose
\* last_scanned the request has committed.
IdleHandler ==
    [pc |-> "idle", kind |-> "none", dir |-> 0, arg |-> 0, todo |-> <<>>,
     cur |-> 0, scanned |-> {}, pre |-> {}, out |-> {}, err |-> "none",
     dup |-> FALSE, lost |-> {}, resp |-> "none",
     root |-> TRUE, steps |-> <<>>, probed |-> {}, meta |-> "none",
     queue |-> <<>>, passed |-> {}, stamps |-> {}, names |-> <<>>]

\* Rows a session sees: the committed ones and its own flushed ones.
Visible(s) == assets \cup sess[s].newA

\* SQLite's write lock: another session holds uncommitted writes.
LockedByOther(s) == \E t \in Procs \ {s} : sess[t].newA # {}

AllIdle == \A s \in Procs : h[s].pc = "idle"

\* ------------------------------------------------------------ validation
\* MediaAsset.validate_path: the file exists and has an allowed extension.
\* It does not look at the rows already stored.
validate_pathMutant(p) == files[p] # "absent"

validate_path(p) == files[p] # "absent" /\ files[p] # "invalid"

\* The UNIQUE constraint on media_assets.file_path, and the other
\* constraints of the table, as the INSERT meets them.
UniqueViolationMutant(p, rows) == FALSE

UniqueViolation(p, rows) == p \in PathsOf(rows)

InsertRejectedMutant(p, rows) == files[p] = "dbreject"

InsertRejected(p, rows) == UniqueViolation(p, rows) \/ files[p] = "dbreject"

\* The processing_results row a metadata extraction is recorded with
\* (media.py lines 225-231, db_utils.py lines 42-48).
NewResultMutant(id, asset_id) ==
    [id |-> id, asset_id |-> asset_id,
     processor_name |-> "metadata_extractor", status |-> "done"]

NewResult(id, asset_id) ==
    [id |-> id, asset_id |-> asset_id,
     processor_name |-> "metadata_extractor", status |-> "completed"]

\* ------------------------------------------------------------ thumbnails
\* extract_metadata.generate_thumbnail, as its caller sees it: on success
\* the output file is in place, on failure no file is left at its path.
ThumbAfter(present, p, ok) ==
    IF ok THEN present \cup {Stem(p)} ELSE present \ {Stem(p)}

\* extract_metadata(): None for a file it cannot read; for a video it
\* generates the thumbnail on the way.
ExtractFails(p) == files[p] = "corrupt" \/ files[p] = "absent"

\* mime_type.startswith('video/'): libmagic reads the content, and a
\* zero-byte file is not a video whatever its extension.
IsVideo(p) == files[p] \notin {"absent", "corrupt", "empty", "image"}

\* subprocess.run and ffmpeg.probe are called without a timeout: on a
\* file the tool never finishes with, the call never returns.
Hangs(p) == files[p] = "hang"

\* What extract_metadata returns: None when reading the file raises; else
\* the record of the file's size, MIME type and dates, to which
\* extract_video_metadata adds the stream fields, or nothing when ffprobe
\* fails.  No record has an error field.
extract_metadata(p) == IF ExtractFails(p) THEN "None" ELSE "record"

\* The steps of extract_metadata on a file, each with the function that
\* runs it: libmagic and stat, then for a video the thumbnail tool
\* (generate_thumbnail runs ffmpeg) and the prober's tool (ffprobe).
ProbeSteps(p) ==
    IF ExtractFails(p) \/ ~IsVideo(p)
    THEN <<<<"extract_metadata", "magic">>>>
    ELSE <<<<"extract_metadata", "magic">>,
           <<"extract_metadata", "ffmpeg">>,
           <<"extract_metadata", "ffprobe">>>>

\* ------------------------------------------------------------------ Init
NoScan == [key |-> <<"none", 0>>, count |-> 0]
NoRescan == [set |-> FALSE, before |-> 0, after |-> 0]
NoOp == [assets |-> {}, results |-> {}, tags |-> {}, asset_tags |-> {}, dirs |-> {}]

\* A thumbnail file by size: absent, 0 bytes, 1..99 bytes, 100 bytes or more.
Sizes == {"absent", "zero", "small", "big"}

NoCall ==
    [fn |-> "none", pc |-> "idle", nested |-> FALSE, attempt |-> 0, calls |-> 0,
     exit |-> "none", ret |-> "none", firstBig |-> 0, firstGood |-> 0,
     allFailed |-> TRUE, gens |-> 0, before |-> "absent"]

NoEnsure == [set |-> FALSE, ret |-> "none", gens |-> 0, file |-> "absent"]
NoPair == [set |-> FALSE, first |-> NoEnsure, second |-> NoEnsure, existed |-> FALSE]

ThInit ==
    /\ outFile = "absent"
    /\ th = NoCall
    /\ prevEnsure = NoEnsure
    /\ pair = NoPair

DbInit ==
    /\ files = [p \in Paths |-> "absent"]
    /\ thumbs = {}
    /\ assets = {}
    /\ results = {}
    /\ dirs = {}
    /\ tags = {}
    /\ asset_tags = {}
    /\ sess = [s \in Procs |-> CleanSession]
    /\ h = [s \in Procs |-> IdleHandler]
    /\ stable = NoScan
    /\ rescan = NoRescan
    /\ lastOp = NoOp

\* Two workers of one thread pool, or two overlapping scans.
Workers == {1, 2}

IdleWorker == [pc |-> "idle", attempt |-> 0, exit |-> "none", ret |-> "none"]

NoCallYet(arg) == [fn |-> "none", arg |-> arg, ret |-> <<>>]

TwInit == tw = [w \in Workers |-> IdleWorker]

\* A connection: where its handler is, the subprotocol negotiated, the
\* requests received that call for a response, the messages the server
\* has sent on it, and whether a send on it has failed.
NoConn == [pc |-> "none", protocol |-> "none", reqs |-> <<>>, sent |-> <<>>,
           dead |-> FALSE]

Conns == 1..MaxConns

WsInit == ws = [conn |-> [c \in Conns |-> NoConn], active |-> {}]

\* CircuitBreaker.__init__: CLOSED, nothing counted, no failure yet.  The
\* clock and the number of calls let through and not yet finished are
\* kept with it.
failure_threshold == 3

recovery_timeout == 60

half_open_limit == 3

CbInit ==
    cb = [state |-> "CLOSED", failure_count |-> 0, last_failure_time |-> -1,
          successful_calls |-> 0, now |-> 0, pending |-> 0, rejected |-> 0]

\* ProcessorManager.__init__: 'scene' and 'logo' registered, both enabled.
Registered == {"scene", "logo"}

NoResults == [requested |-> <<>>, tasks |-> <<>>, results |-> <<>>]

PmInit == pm = [enabled |-> Registered, last |-> NoResults]

\* ProcessingManager.__init__: an empty queue, no worker loop.
PwInit ==
    pw = [is_processing |-> FALSE, pc |-> "none", queue |-> <<>>,
          asset_id |-> 0, processed |-> <<>>, stopped |-> FALSE]

AiInit == CbInit /\ PmInit /\ PwInit

SvcInit ==
    /\ TwInit
    /\ call = NoCallYet(0)
    /\ WsInit
    /\ AiInit

\* SQLite leaves foreign keys off unless the connection (or the build)
\* switches them on; no scanner and no thumbnail function deletes a row,
\* so the setting plays no part outside the CRUD routes.
Init == DbInit /\ ThInit /\ SvcInit /\ fkOn = FALSE

InitCrud == DbInit /\ ThInit /\ SvcInit /\ fkOn \in BOOLEAN

\* The scan bookkeeping: a scan that completes right after a scan of the
\* same kind over the same directory, with nothing changed in between,
\* records the row counts around it.
Alone(s) == \A t \in Procs \ {s} : h[t].pc = "idle"

Completed(s, key, rowsAfter) ==
    /\ rescan' = IF Alone(s) /\ stable.key = key
                 THEN [set |-> TRUE, before |-> stable.count,
                       after |-> Cardinality(rowsAfter)]
                 ELSE NoRescan
    /\ stable' = IF Alone(s) THEN [key |-> key, count |-> Cardinality(rowsAfter)]
                 ELSE NoScan

Started(s) == stable' = IF Alone(s) THEN stable ELSE NoScan

\* The loop's `continue`: on to the next enumerated file.
Continue(s, pc, err, dup) ==
    [h[s] EXCEPT !.pc = pc, !.todo = Tail(@), !.cur = Head(h[s].todo),
                 !.err = err, !.dup = dup, !.steps = <<>>, !.meta = "none",
                 !.lost = IF dup /\ err = "IntegrityError"
                          THEN @ \cup {Head(h[s].todo)} ELSE @]

\* ---------------------------------------------------------- file system
\* A new file appears in the media root.
AddFile(p, k) ==
    /\ AllIdle
    /\ files[p] = "absent"
    /\ files' = [files EXCEPT ![p] = k]
    /\ stable' = NoScan
    /\ UNCHANGED <<thumbs, assets, results, dirs, tags, asset_tags, fkOn,
                   sess, h, rescan, lastOp>>
    /\ UNCHANGED thVars

\* ------------------------------------------- add_directory (routes.py)
\* A scan root that does not exist holds no file.
RootStateMutant(d, exists) == TRUE

RootState(d, exists) == exists \/ \A p \in Under(d) : files[p] = "absent"

\* POST /directories: register the directory if it is new, then scan it
\* with process_directory (which returns the empty list at once when the
\* path does not exist).
add_directory(s, d, order, exists) ==
    /\ h[s].pc = "idle"
    /\ RootState(d, exists)
    /\ order \in Perms({p \in Under(d) : files[p] # "absent"})
    /\ LET existing == {r \in dirs : r.path = d}
           id == IF existing = {} THEN NewId(dirs)
                 ELSE (CHOOSE r \in existing : TRUE).id
       IN /\ id <= MaxId
          /\ existing = {} => ~LockedByOther(s)
          /\ dirs' = IF existing = {}
                     THEN dirs \cup {[id |-> id, path |-> d, last_scanned |-> 0]}
                     ELSE dirs
          /\ h' = [h EXCEPT ![s] =
                     [IdleHandler EXCEPT !.pc = "pd_probe", !.kind = "add_directory",
                                         !.dir = id, !.todo = order, !.root = exists,
                                         !.scanned = {order[i] : i \in DOMAIN order},
                                         !.pre = PathsOf(assets)]]
    /\ Started(s)
    /\ UNCHANGED <<files, thumbs, assets, results, tags, asset_tags, fkOn,
                   sess, rescan, lastOp>>
    /\ UNCHANGED thVars

\* ---------------------------------- process_directory (per-file loop)
\* Lines 28-40: probe, then the thumbnail of a video (extract_metadata
\* has already generated it once; process_directory generates it again,
\* the index script does not).
PdProbe(s) ==
    /\ h[s].pc = "pd_probe"
    /\ h[s].todo # <<>>
    /\ ~Hangs(Head(h[s].todo))
    /\ LET p == Head(h[s].todo)
           twice == h[s].kind # "index"
       IN IF ExtractFails(p)
          THEN /\ h' = [h EXCEPT ![s] =
                          [Continue(s, "pd_probe", "NoMetadata", FALSE)
                             EXCEPT !.probed = @ \cup {p},
                                    !.steps = ProbeSteps(p),
                                    !.meta = extract_metadata(p)]]
               /\ UNCHANGED thumbs
          ELSE IF ~IsVideo(p)
          THEN /\ h' = [h EXCEPT ![s].pc = "pd_persist",
                                 ![s].probed = @ \cup {p},
                                 ![s].steps = ProbeSteps(p),
                                 ![s].meta = extract_metadata(p)]
               /\ UNCHANGED thumbs
          ELSE \E t1, t2 \in BOOLEAN :
                 LET once == ThumbAfter(thumbs, p, t1)
                 IN /\ thumbs' = IF twice THEN ThumbAfter(once, p, t2) ELSE once
                    /\ h' = [h EXCEPT
                              ![s].pc = "pd_persist",
                              ![s].probed = @ \cup {p},
                              ![s].steps =
                                  ProbeSteps(p) \o
                                  (IF twice
                                   THEN <<<<"process_directory", "ffmpeg">>>>
                                   ELSE <<>>),
                              ![s].meta = extract_metadata(p)]
    /\ UNCHANGED <<files, assets, results, dirs, tags, asset_tags, fkOn,
                   sess, stable, rescan, lastOp>>
    /\ UNCHANGED thVars

\* directory.last_scanned = datetime.utcnow(), once committed.
Stamp(rows, ids) ==
    {IF r.id \in ids THEN [r EXCEPT !.last_scanned = 1] ELSE r : r \in rows}

\* Lines 42-60: construct the row, add, commit; on any exception roll
\* back and go on with the next file.  The commit and the rollback are
\* those of the request's session: they carry, or drop, whatever else the
\* caller has pending in it.
PdPersist(s) ==
    /\ h[s].pc = "pd_persist"
    /\ LET p == Head(h[s].todo)
           row == [id |-> NewId(assets), file_path |-> p, directory_id |-> h[s].dir]
       IN IF ~validate_path(p)
          THEN /\ h' = [h EXCEPT ![s] =
                          Continue(s, "pd_probe", "ValueError", p \in PathsOf(assets))]
               /\ UNCHANGED <<assets, dirs>>
          ELSE /\ ~LockedByOther(s)
               /\ IF InsertRejected(p, assets)
                  THEN /\ h' = [h EXCEPT ![s] =
                                  Continue(s, "pd_probe", "IntegrityError",
                                           p \in PathsOf(assets))]
                       /\ UNCHANGED <<assets, dirs>>
                  ELSE /\ row.id <= MaxId
                       /\ assets' = assets \cup {row}
                       /\ dirs' = Stamp(dirs, sess[s].stamped)
                       /\ h' = [h EXCEPT ![s] =
                                  [Continue(s, "pd_probe", "none", p \in PathsOf(assets))
                                     EXCEPT !.out = @ \cup {row},
                                            !.stamps = @ \cup sess[s].stamped]]
    /\ sess' = [sess EXCEPT ![s] = CleanSession]
    /\ UNCHANGED <<files, thumbs, results, tags, asset_tags, fkOn,
                   stable, rescan, lastOp>>
    /\ UNCHANGED thVars

\* Line 62: return assets, back in the route that called the scanner.
\* Where the per-file loop returns to: the route or script that runs it.
Caller(s) ==
    CASE h[s].kind = "scan_directories" -> "sd_stamp"
      [] h[s].kind = "index" -> "ix_finish"
      [] OTHER -> "ad_finish"

PdReturn(s) ==
    /\ h[s].pc = "pd_probe"
    /\ h[s].todo = <<>>
    /\ h' = [h EXCEPT ![s].pc = Caller(s)]
    /\ UNCHANGED <<files, thumbs, assets, results, dirs, tags, asset_tags, fkOn,
                   sess, stable, rescan, lastOp>>
    /\ UNCHANGED thVars

\* add_directory, after the scan: stamp last_scanned and commit.
AdFinish(s) ==
    /\ h[s].pc = "ad_finish"
    /\ ~LockedByOther(s)
    /\ dirs' = Stamp(dirs, {h[s].dir})
    /\ h' = [h EXCEPT ![s].pc = "done", ![s].resp = "ok",
                      ![s].passed = {h[s].dir}, ![s].stamps = {h[s].dir}]
    /\ Completed(s, <<"process_directory", h[s].dir>>, assets)
    /\ UNCHANGED <<files, thumbs, assets, results, tags, asset_tags, fkOn,
                   sess, lastOp>>
    /\ UNCHANGED thVars

\* Lines 64-66: an exception outside the per-file try (the directory walk
\* raises) ends process_directory with the empty list, whatever it has
\* committed and appended to its local list (out).
PdAbort(s) ==
    /\ h[s].pc = "pd_probe"
    /\ h[s].kind # "index"
    /\ h[s].todo # <<>>
    /\ h' = [h EXCEPT ![s].pc = Caller(s), ![s].todo = <<>>,
                      ![s].err = "OSError", ![s].steps = <<>>, ![s].meta = "none"]
    /\ stable' = NoScan
    /\ UNCHANGED <<files, thumbs, assets, results, dirs, tags, asset_tags, fkOn,
                   sess, rescan, lastOp>>
    /\ UNCHANGED thVars

\* ------------------------------- index_media_files (scripts/index_media.py)
\* The index script walks every file of the tree, whatever its extension,
\* and runs the same per-file steps: extract_metadata, MediaAsset(...),
\* add, commit, rollback on an exception.
index_media_files(s, order) ==
    /\ h[s].pc = "idle"
    /\ order \in Perms({p \in Paths : files[p] # "absent"})
    /\ h' = [h EXCEPT ![s] =
               [IdleHandler EXCEPT !.pc = "pd_probe", !.kind = "index",
                                   !.todo = order,
                                   !.scanned = {order[i] : i \in DOMAIN order},
                                   !.pre = PathsOf(assets)]]
    /\ stable' = NoScan
    /\ UNCHANGED <<files, thumbs, assets, results, dirs, tags, asset_tags, fkOn,
                   sess, rescan, lastOp>>
    /\ UNCHANGED thVars

IxFinish(s) ==
    /\ h[s].pc = "ix_finish"
    /\ h' = [h EXCEPT ![s].pc = "done", ![s].resp = "ok"]
    /\ UNCHANGED <<files, thumbs, assets, results, dirs, tags, asset_tags, fkOn,
                   sess, stable, rescan, lastOp>>
    /\ UNCHANGED thVars

\* ------------------------------------ scan_directories (routes.py, /scan)
DirPath(id) == (CHOOSE r \in dirs : r.id = id).path

\* One directory (directory_id given) or all the active ones, in the
\* order the query returns them.
scan_directories(s, ids) ==
    /\ h[s].pc = "idle"
    /\ ids \in Perms({r.id : r \in dirs}) \cup {<<r.id>> : r \in dirs}
    /\ h' = [h EXCEPT ![s] =
               [IdleHandler EXCEPT !.pc = "sd_next", !.kind = "scan_directories",
                                   !.queue = ids, !.pre = PathsOf(assets)]]
    /\ stable' = NoScan
    /\ UNCHANGED <<files, thumbs, assets, results, dirs, tags, asset_tags, fkOn,
                   sess, rescan, lastOp>>
    /\ UNCHANGED thVars

\* assets = process_directory(directory.path, directory.id)
SdNext(s, order) ==
    /\ h[s].pc = "sd_next"
    /\ h[s].queue # <<>>
    /\ order \in Perms({p \in Under(DirPath(Head(h[s].queue))) : files[p] # "absent"})
    /\ h' = [h EXCEPT ![s].pc = "pd_probe", ![s].dir = Head(h[s].queue),
                      ![s].todo = order,
                      ![s].scanned = @ \cup {order[i] : i \in DOMAIN order}]
    /\ UNCHANGED <<files, thumbs, assets, results, dirs, tags, asset_tags, fkOn,
                   sess, stable, rescan, lastOp>>
    /\ UNCHANGED thVars

\* directory.last_scanned = datetime.utcnow(): set on the object, pending
\* in the session until a commit.
SdStamp(s) ==
    /\ h[s].pc = "sd_stamp"
    /\ sess' = [sess EXCEPT ![s].stamped = @ \cup {h[s].dir}]
    /\ h' = [h EXCEPT ![s].pc = "sd_next", ![s].queue = Tail(@),
                      ![s].passed = @ \cup {h[s].dir}]
    /\ UNCHANGED <<files, thumbs, assets, results, dirs, tags, asset_tags, fkOn,
                   stable, rescan, lastOp>>
    /\ UNCHANGED thVars

\* db.session.commit() after the last directory, and the response.
SdCommit(s) ==
    /\ h[s].pc = "sd_next"
    /\ h[s].queue = <<>>
    /\ ~LockedByOther(s)
    /\ dirs' = Stamp(dirs, sess[s].stamped)
    /\ sess' = [sess EXCEPT ![s] = CleanSession]
    /\ h' = [h EXCEPT ![s].pc = "done", ![s].resp = "ok",
                      ![s].stamps = @ \cup sess[s].stamped]
    /\ UNCHANGED <<files, thumbs, assets, results, tags, asset_tags, fkOn,
                   stable, rescan, lastOp>>
    /\ UNCHANGED thVars

\* ------------------------------------ scan_directory (routes/media.py)
\* POST /scan over the media root; 404 when the media root does not exist.
scan_directory(s, order, exists) ==
    /\ h[s].pc = "idle"
    /\ RootState(1, exists)
    /\ order \in Perms({p \in Paths : files[p] # "absent"})
    /\ h' = [h EXCEPT ![s] =
               IF exists
               THEN [IdleHandler EXCEPT !.pc = "rt_check", !.kind = "scan",
                                        !.todo = order,
                                        !.scanned = {order[i] : i \in DOMAIN order},
                                        !.pre = PathsOf(assets)]
               ELSE [IdleHandler EXCEPT !.pc = "done", !.kind = "scan",
                                        !.root = FALSE, !.resp = "404",
                                        !.pre = PathsOf(assets)]]
    /\ Started(s)
    /\ UNCHANGED <<files, thumbs, assets, results, dirs, tags, asset_tags, fkOn,
                   sess, rescan, lastOp>>
    /\ UNCHANGED thVars

\* Lines 190-199: skip an indexed path, else probe.  A query on a session
\* whose flush has failed raises, and the loop goes on.
RtCheck(s) ==
    /\ h[s].pc = "rt_check"
    /\ h[s].todo # <<>>
    /\ (sess[s].st # "inactive" /\ Head(h[s].todo) \notin PathsOf(Visible(s)))
       => ~Hangs(Head(h[s].todo))
    /\ LET p == Head(h[s].todo)
       IN IF sess[s].st = "inactive"
          THEN /\ h' = [h EXCEPT ![s] = Continue(s, "rt_check", "PendingRollbackError", FALSE)]
               /\ UNCHANGED thumbs
          ELSE IF p \in PathsOf(Visible(s))
          THEN /\ h' = [h EXCEPT ![s] = Continue(s, "rt_check", "none", FALSE)]
               /\ UNCHANGED thumbs
          ELSE IF ExtractFails(p)
          THEN /\ h' = [h EXCEPT ![s] =
                          [Continue(s, "rt_check", "NoMetadata", FALSE)
                             EXCEPT !.probed = @ \cup {p},
                                    !.steps = ProbeSteps(p),
                                    !.meta = extract_metadata(p)]]
               /\ UNCHANGED thumbs
          ELSE IF ~IsVideo(p)
          THEN /\ h' = [h EXCEPT ![s].pc = "rt_insert",
                                 ![s].probed = @ \cup {p},
                                 ![s].steps = ProbeSteps(p),
                                 ![s].meta = extract_metadata(p)]
               /\ UNCHANGED thumbs
          ELSE \E t1 \in BOOLEAN :
                 /\ thumbs' = ThumbAfter(thumbs, p, t1)
                 /\ h' = [h EXCEPT ![s].pc = "rt_insert",
                                   ![s].probed = @ \cup {p},
                                   ![s].steps = ProbeSteps(p),
                                   ![s].meta = extract_metadata(p)]
    /\ UNCHANGED <<files, assets, results, dirs, tags, asset_tags, fkOn,
                   sess, stable, rescan, lastOp>>
    /\ UNCHANGED thVars

\* Lines 201-237: construct the row, add, flush, add the audit row, report
\* the asset.  The except clause logs and continues; it does not roll back.
RtInsert(s) ==
    /\ h[s].pc = "rt_insert"
    /\ LET p == Head(h[s].todo)
           row == [id |-> NewId(Visible(s)), file_path |-> p, directory_id |-> 0]
           res == NewResult(NewId(results \cup sess[s].newR), row.id)
       IN IF ~validate_path(p)
          THEN /\ h' = [h EXCEPT ![s] =
                          Continue(s, "rt_check", "ValueError", p \in PathsOf(Visible(s)))]
               /\ UNCHANGED sess
          ELSE /\ ~LockedByOther(s)
               /\ IF InsertRejected(p, Visible(s))
                  THEN /\ sess' = [sess EXCEPT ![s] =
                                     [st |-> "inactive", newA |-> {}, newR |-> {}, stamped |-> {}]]
                       /\ h' = [h EXCEPT ![s] =
                                  Continue(s, "rt_check", "IntegrityError",
                                           p \in PathsOf(Visible(s)))]
                  ELSE /\ row.id <= MaxId
                       /\ sess' = [sess EXCEPT ![s].newA = @ \cup {row},
                                               ![s].newR = @ \cup {res}]
                       /\ h' = [h EXCEPT ![s] =
                                  [Continue(s, "rt_check", "none", p \in PathsOf(Visible(s)))
                                     EXCEPT !.out = @ \cup {row}]]
    /\ UNCHANGED <<files, thumbs, assets, results, dirs, tags, asset_tags, fkOn,
                   stable, rescan, lastOp>>
    /\ UNCHANGED thVars

\* Lines 239-251: commit once if anything was reported; a commit on a
\* session whose flush has failed raises, and the outer except clause
\* rolls back and answers 500.
RtFinish(s) ==
    /\ h[s].pc = "rt_check"
    /\ h[s].todo = <<>>
    /\ IF h[s].out # {} /\ sess[s].st = "inactive"
       THEN /\ sess' = [sess EXCEPT ![s] = CleanSession]
            /\ h' = [h EXCEPT ![s].pc = "done", ![s].resp = "error"]
            /\ Completed(s, <<"scan", 0>>, assets)
            /\ UNCHANGED <<assets, results>>
       ELSE /\ assets' = IF h[s].out # {} THEN assets \cup sess[s].newA ELSE assets
            /\ results' = IF h[s].out # {} THEN results \cup sess[s].newR ELSE results
            /\ sess' = [sess EXCEPT ![s] =
                          IF h[s].out # {} THEN CleanSession ELSE @]
            /\ h' = [h EXCEPT ![s].pc = "done", ![s].resp = "ok"]
            /\ Completed(s, <<"scan", 0>>, assets')
    /\ UNCHANGED <<files, thumbs, dirs, tags, asset_tags, fkOn, lastOp>>
    /\ UNCHANGED thVars

\* The response is sent and the request's session is removed.
Respond(s) ==
    /\ h[s].pc = "done"
    /\ h' = [h EXCEPT ![s] = IdleHandler]
    /\ sess' = [sess EXCEPT ![s] = CleanSession]
    /\ rescan' = NoRescan
    /\ lastOp' = NoOp
    /\ UNCHANGED <<files, thumbs, assets, results, dirs, tags, asset_tags, fkOn,
                   stable>>
    /\ UNCHANGED thVars

\* ------------------------------------------------- CRUD routes (routes.py)
Snapshot ==
    [assets |-> assets, results |-> results, tags |-> tags,
     asset_tags |-> asset_tags, dirs |-> dirs]

Answer(s, kind, id, resp) ==
    [IdleHandler EXCEPT !.pc = "done", !.kind = kind, !.arg = id, !.resp = resp]

\* The unit of work on session.delete(asset).  processing_results is a
\* relationship without a delete cascade and without passive_deletes: the
\* children are loaded and their asset_id is set to NULL, which the
\* NOT NULL column rejects.  The asset_tags rows of the asset are deleted
\* as rows of a secondary table.
OrmDeleteRejected(id) == \E r \in results : r.asset_id = id

\* DELETE /assets/<id>
delete_asset(s, id) ==
    /\ h[s].pc = "idle"
    /\ ~LockedByOther(s)
    /\ lastOp' = Snapshot
    /\ stable' = NoScan
    /\ IF ~\E a \in assets : a.id = id
       THEN /\ h' = [h EXCEPT ![s] = Answer(s, "delete_asset", id, "404")]
            /\ UNCHANGED <<assets, asset_tags>>
       ELSE IF OrmDeleteRejected(id)
       THEN /\ h' = [h EXCEPT ![s] = Answer(s, "delete_asset", id, "error")]
            /\ UNCHANGED <<assets, asset_tags>>
       ELSE /\ assets' = {a \in assets : a.id # id}
            /\ asset_tags' = {l \in asset_tags : l[1] # id}
            /\ h' = [h EXCEPT ![s] = Answer(s, "delete_asset", id, "ok")]
    /\ UNCHANGED <<files, thumbs, results, dirs, tags, fkOn, sess, rescan>>
    /\ UNCHANGED thVars

\* ------------------------------------------------------------------ tags
\* A tag name as a client sends it: a name in lower case, the same in
\* upper case, the same with surrounding blanks, or nothing but blanks.
TagForms == {"plain", "upper", "padded"}

RawNames ==
    {[name |-> n, form |-> f] : n \in TagNames, f \in TagForms}
    \cup {[name |-> 0, form |-> "blank"]}

\* The lists of at most MaxTags different names.
RawSeqs == UNION {Perms(S) : S \in {T \in SUBSET RawNames : Cardinality(T) <= MaxTags}}

\* str.lower() and str.strip()
Lower(r) == IF r.form = "upper" THEN [r EXCEPT !.form = "plain"] ELSE r

Strip(r) == IF r.form = "padded" THEN [r EXCEPT !.form = "plain"] ELSE r

\* Tag.validate_name: ValueError for an empty or blank name, else the
\* name lower-cased and stripped.
NameRejected(r) == r.form = "blank"

validate_name(r) == Strip(Lower(r))

\* update_asset, lines 145-152: for each name, the tag found under the
\* lower-cased name, else a new Tag; the INSERT of a name that is
\* already stored fails on the UNIQUE constraint at the next flush.
RECURSIVE AssignTags(_, _, _)
AssignTags(raws, known, picked) ==
    IF raws = <<>> THEN [err |-> "none", known |-> known, picked |-> picked]
    ELSE LET key == Lower(Head(raws))
         IN IF key \in known
            THEN AssignTags(Tail(raws), known, picked \cup {key})
            ELSE IF NameRejected(key)
            THEN [err |-> "ValueError", known |-> known, picked |-> picked]
            ELSE IF validate_name(key) \in known
            THEN [err |-> "IntegrityError", known |-> known, picked |-> picked]
            ELSE AssignTags(Tail(raws), known \cup {validate_name(key)},
                            picked \cup {validate_name(key)})

\* PUT /assets/<id> with a list of tags: the asset's tags are replaced,
\* a Tag row is created for a name that has none; any exception rolls
\* the request back and answers 500.
update_asset(s, id, raws) ==
    /\ h[s].pc = "idle"
    /\ ~LockedByOther(s)
    /\ lastOp' = Snapshot
    /\ stable' = NoScan
    /\ IF ~\E a \in assets : a.id = id
       THEN /\ h' = [h EXCEPT ![s] = Answer(s, "update_asset", id, "404")]
            /\ UNCHANGED <<tags, asset_tags>>
       ELSE LET r == AssignTags(raws, tags, {})
            IN IF r.err # "none"
               THEN /\ h' = [h EXCEPT ![s] =
                               [Answer(s, "update_asset", id, "error")
                                  EXCEPT !.names = raws, !.err = r.err]]
                    /\ UNCHANGED <<tags, asset_tags>>
               ELSE /\ tags' = r.known
                    /\ asset_tags' = {l \in asset_tags : l[1] # id}
                                      \cup {<<id, t>> : t \in r.picked}
                    /\ h' = [h EXCEPT ![s] =
                               [Answer(s, "update_asset", id, "ok")
                                  EXCEPT !.names = raws]]
    /\ UNCHANGED <<files, thumbs, assets, results, dirs, fkOn, sess, rescan>>
    /\ UNCHANGED thVars

\* POST /tags: the tag stored under the normalized name is returned, else
\* a new one is created.
create_tag(s, raw) ==
    /\ h[s].pc = "idle"
    /\ ~LockedByOther(s)
    /\ lastOp' = Snapshot
    /\ stable' = NoScan
    /\ LET name == Strip(Lower(raw))
       IN IF name \in tags
          THEN /\ h' = [h EXCEPT ![s] =
                          [Answer(s, "create_tag", 0, "ok") EXCEPT !.names = <<raw>>]]
               /\ UNCHANGED tags
          ELSE IF NameRejected(name)
          THEN /\ h' = [h EXCEPT ![s] =
                          [Answer(s, "create_tag", 0, "error")
                             EXCEPT !.names = <<raw>>, !.err = "ValueError"]]
               /\ UNCHANGED tags
          ELSE /\ tags' = tags \cup {validate_name(name)}
               /\ h' = [h EXCEPT ![s] =
                          [Answer(s, "create_tag", 0, "ok") EXCEPT !.names = <<raw>>]]
    /\ UNCHANGED <<files, thumbs, assets, results, dirs, asset_tags, fkOn, sess,
                   rescan>>
    /\ UNCHANGED thVars

\* media_assets.directory_id REFERENCES media_directories(id) ON DELETE
\* SET NULL: SQLite applies the clause only on a connection that has
\* foreign keys switched on.
OnDeleteSetNull(rows, id) ==
    IF fkOn
    THEN {IF a.directory_id = id THEN [a EXCEPT !.directory_id = 0] ELSE a : a \in rows}
    ELSE rows

\* DELETE /directories/<id>
remove_directory(s, id) ==
    /\ h[s].pc = "idle"
    /\ ~LockedByOther(s)
    /\ lastOp' = Snapshot
    /\ stable' = NoScan
    /\ IF ~\E r \in dirs : r.id = id
       THEN /\ h' = [h EXCEPT ![s] = Answer(s, "remove_directory", id, "404")]
            /\ UNCHANGED <<dirs, assets>>
       ELSE /\ dirs' = {r \in dirs : r.id # id}
            /\ assets' = OnDeleteSetNull(assets, id)
            /\ h' = [h EXCEPT ![s] = Answer(s, "remove_directory", id, "ok")]
    /\ UNCHANGED <<files, thumbs, results, tags, asset_tags, fkOn, sess, rescan>>
    /\ UNCHANGED thVars

Next ==
    \/ \E p \in Paths, k \in Kinds \ {"absent"} : AddFile(p, k)
    \/ \E d \in DirPaths, order \in Seq1, e \in BOOLEAN : add_directory(1, d, order, e)
    \/ \E order \in Seq1, e \in BOOLEAN : scan_directory(1, order, e)
    \/ PdProbe(1)
    \/ PdPersist(1)
    \/ PdReturn(1)
    \/ AdFinish(1)
    \/ RtCheck(1)
    \/ RtInsert(1)
    \/ RtFinish(1)
    \/ Respond(1)

\* The scanners, one request at a time.
Spec == Init /\ [][Next]_vars

NextCrud ==
    \/ \E p \in Paths, k \in Kinds \ {"absent"} : AddFile(p, k)
    \/ \E d \in DirPaths, order \in Seq1, e \in BOOLEAN : add_directory(1, d, order, e)
    \/ \E order \in Seq1, e \in BOOLEAN : scan_directory(1, order, e)
    \/ PdProbe(1)
    \/ PdPersist(1)
    \/ PdReturn(1)
    \/ AdFinish(1)
    \/ RtCheck(1)
    \/ RtInsert(1)
    \/ RtFinish(1)
    \/ Respond(1)
    \/ \E id \in 1..MaxId : delete_asset(1, id)
    \/ \E id \in 1..MaxId, raws \in RawSeqs : update_asset(1, id, raws)
    \/ \E id \in 1..MaxId : remove_directory(1, id)

\* The scanners and the CRUD routes, one request at a time.
SpecCrud == InitCrud /\ [][NextCrud]_vars

NextTags ==
    \/ \E p \in Paths : AddFile(p, "ok")
    \/ \E order \in Seq1 : index_media_files(1, order)
    \/ PdProbe(1)
    \/ PdPersist(1)
    \/ PdReturn(1)
    \/ IxFinish(1)
    \/ Respond(1)
    \/ \E id \in 1..MaxId, raws \in RawSeqs : update_asset(1, id, raws)
    \/ \E raw \in RawNames : create_tag(1, raw)

\* The tag routes over the assets an index run has stored.
SpecTags == Init /\ [][NextTags]_vars

\* ------------------------------ update_asset_metadata (utils/db_utils.py)
\* The asset's columns are set from the metadata and one
\* processing_results row is added and committed; False when the asset
\* does not exist.
update_asset_metadata(s, id) ==
    /\ h[s].pc = "idle"
    /\ ~LockedByOther(s)
    /\ lastOp' = Snapshot
    /\ stable' = NoScan
    /\ IF ~\E a \in assets : a.id = id
       THEN /\ h' = [h EXCEPT ![s] = Answer(s, "update_asset_metadata", id, "404")]
            /\ UNCHANGED results
       ELSE /\ NewId(results) <= MaxId
            /\ results' = results \cup {NewResult(NewId(results), id)}
            /\ h' = [h EXCEPT ![s] = Answer(s, "update_asset_metadata", id, "ok")]
    /\ UNCHANGED <<files, thumbs, assets, dirs, tags, asset_tags, fkOn, sess,
                   rescan>>
    /\ UNCHANGED thVars

\* ------------------- handle_processing_webhook (routes/webhooks.py)
\* ProcessingResult(asset_id=..., results=..., status='completed') names
\* a column the model does not have and leaves processor_name unset: the
\* constructor raises, nothing is added, the answer is 500.
handle_processing_webhook(s, id) ==
    /\ h[s].pc = "idle"
    /\ lastOp' = Snapshot
    /\ stable' = NoScan
    /\ h' = [h EXCEPT ![s] =
               Answer(s, "handle_processing_webhook", id,
                      IF \E a \in assets : a.id = id THEN "error" ELSE "404")]
    /\ UNCHANGED <<files, thumbs, assets, results, dirs, tags, asset_tags, fkOn,
                   sess, rescan>>
    /\ UNCHANGED thVars

NextResults ==
    \/ \E p \in Paths : AddFile(p, "ok")
    \/ \E order \in Seq1, e \in BOOLEAN : scan_directory(1, order, e)
    \/ RtCheck(1)
    \/ RtInsert(1)
    \/ RtFinish(1)
    \/ Respond(1)
    \/ \E id \in 1..MaxId : update_asset_metadata(1, id)
    \/ \E id \in 1..MaxId : handle_processing_webhook(1, id)
    \/ \E id \in 1..MaxId : delete_asset(1, id)

\* Every writer of processing_results, and the deletion of assets.
SpecResults == Init /\ [][NextResults]_vars

NextConc ==
    \/ \E p \in Paths, k \in Kinds \ {"absent"} : AddFile(p, k)
    \/ \E s \in Procs, d \in DirPaths, order \in Seq1, e \in BOOLEAN :
           add_directory(s, d, order, e)
    \/ \E s \in Procs, order \in Seq1, e \in BOOLEAN : scan_directory(s, order, e)
    \/ \E s \in Procs : PdProbe(s)
    \/ \E s \in Procs : PdPersist(s)
    \/ \E s \in Procs : PdReturn(s)
    \/ \E s \in Procs : AdFinish(s)
    \/ \E s \in Procs : RtCheck(s)
    \/ \E s \in Procs : RtInsert(s)
    \/ \E s \in Procs : RtFinish(s)
    \/ \E s \in Procs : Respond(s)

\* Two requests at a time, each with its own session.
SpecConc == Init /\ [][NextConc]_vars

NextProbe ==
    \/ \E p \in Paths, k \in ProbeKinds \ {"absent"} : AddFile(p, k)
    \/ \E d \in DirPaths, order \in Seq1, e \in BOOLEAN : add_directory(1, d, order, e)
    \/ \E order \in Seq1, e \in BOOLEAN : scan_directory(1, order, e)
    \/ \E order \in Seq1 : index_media_files(1, order)
    \/ PdProbe(1)
    \/ PdPersist(1)
    \/ PdReturn(1)
    \/ PdAbort(1)
    \/ AdFinish(1)
    \/ IxFinish(1)
    \/ RtCheck(1)
    \/ RtInsert(1)
    \/ RtFinish(1)
    \/ Respond(1)

\* The scanners and the index script over every kind of file the prober
\* meets, with a directory walk that may fail; one request at a time.
SpecProbe == Init /\ [][NextProbe]_vars

NextDirs ==
    \/ \E p \in Paths, k \in {"ok", "invalid"} : AddFile(p, k)
    \/ \E d \in ActivePaths, order \in Seq1, e \in BOOLEAN : add_directory(1, d, order, e)
    \/ \E ids \in Seq1Ids : scan_directories(1, ids)
    \/ \E order \in Seq1 : SdNext(1, order)
    \/ SdStamp(1)
    \/ SdCommit(1)
    \/ PdProbe(1)
    \/ PdPersist(1)
    \/ PdReturn(1)
    \/ AdFinish(1)
    \/ Respond(1)

\* The directory routes: registration and the scan of all directories.
SpecDirs == Init /\ [][NextDirs]_vars

NextLite ==
    \/ \E p \in Paths, k \in {"ok", "invalid"} : AddFile(p, k)
    \/ \E d \in DirPaths, order \in Seq1, e \in BOOLEAN : add_directory(1, d, order, e)
    \/ \E order \in Seq1, e \in BOOLEAN : scan_directory(1, order, e)
    \/ \E order \in Seq1 : index_media_files(1, order)
    \/ PdProbe(1)
    \/ PdPersist(1)
    \/ PdReturn(1)
    \/ AdFinish(1)
    \/ IxFinish(1)
    \/ RtCheck(1)
    \/ RtInsert(1)
    \/ RtFinish(1)
    \/ Respond(1)

\* The three creation paths over readable videos and files whose
\* extension is not allowed; one request at a time.
SpecLite == Init /\ [][NextLite]_vars

NextHang ==
    \/ \E p \in Paths, k \in {"ok", "hang"} : AddFile(p, k)
    \/ \E d \in DirPaths, order \in Seq1, e \in BOOLEAN : add_directory(1, d, order, e)
    \/ \E order \in Seq1, e \in BOOLEAN : scan_directory(1, order, e)
    \/ PdProbe(1)
    \/ PdPersist(1)
    \/ PdReturn(1)
    \/ AdFinish(1)
    \/ RtCheck(1)
    \/ RtInsert(1)
    \/ RtFinish(1)
    \/ Respond(1)

\* The scanners over readable videos and files the external tool never
\* finishes with; a step that can be taken is taken in the end.
SpecHang == Init /\ [][NextHang]_vars /\ WF_vars(NextHang)

\* =============================================== the thumbnail generators
\* What one run of the external tool does: how it exits, and what it
\* leaves at the output path ("keep": it writes nothing).
Exits == {"ok", "fail", "oserror"}
Writes == {"keep", "zero", "small", "big"}

Written(f, w) == IF w = "keep" THEN f ELSE w

\* os.path.getsize(output_path) < 100
TooSmall(f) == f \in {"zero", "small"}

\* for attempt in range(max_retries): another pass after this one.
MoreAttemptsMutant(attempt) == attempt < max_retries

MoreAttempts(attempt) == attempt + 1 < max_retries

\* ---------------- extract_metadata.generate_thumbnail (retry loop)
GtStart ==
    /\ th.pc = "idle"
    /\ th' = [NoCall EXCEPT !.fn = "generate_thumbnail_retry", !.pc = "run",
                            !.before = outFile]
    /\ prevEnsure' = NoEnsure
    /\ pair' = NoPair
    /\ UNCHANGED outFile
    /\ UNCHANGED dbVars

\* Line 63: subprocess.run(ffmpeg_cmd, check=True, ...)
GtRun(exit, w) ==
    /\ th.fn = "generate_thumbnail_retry"
    /\ th.pc = "run"
    /\ exit = "oserror" => w = "keep"
    /\ outFile' = Written(outFile, w)
    /\ th' = [th EXCEPT !.pc = "validate", !.calls = @ + 1, !.exit = exit,
                        !.allFailed = @ /\ exit # "ok",
                        !.firstBig = IF @ = 0 /\ w = "big"
                                     THEN th.attempt + 1 ELSE @,
                        !.firstGood = IF @ = 0 /\ outFile' = "big" /\ exit = "ok"
                                      THEN th.attempt + 1 ELSE @]
    /\ UNCHANGED <<prevEnsure, pair>>
    /\ UNCHANGED dbVars

Retry(t) ==
    IF MoreAttempts(t.attempt)
    THEN [t EXCEPT !.pc = "run", !.attempt = @ + 1]
    ELSE [t EXCEPT !.pc = "done", !.attempt = @ + 1, !.ret = "None"]

\* Lines 66-97: validate the output, clean up, retry or return.
GtValidate ==
    /\ th.fn = "generate_thumbnail_retry"
    /\ th.pc = "validate"
    /\ IF th.exit = "ok"
       THEN IF outFile = "absent"
            THEN /\ th' = Retry(th)
                 /\ UNCHANGED outFile
            ELSE IF TooSmall(outFile)
            THEN /\ outFile' = "absent"
                 /\ th' = Retry(th)
            ELSE /\ th' = [th EXCEPT !.pc = "done", !.ret = "path"]
                 /\ UNCHANGED outFile
       ELSE IF th.exit = "fail"
       THEN /\ outFile' = "absent"
            /\ th' = Retry(th)
       ELSE /\ outFile' = "absent"
            /\ th' = [th EXCEPT !.pc = "done", !.ret = "None"]
    /\ UNCHANGED <<prevEnsure, pair>>
    /\ UNCHANGED dbVars

\* ------------------------- thumbnail.generate_thumbnail (single run)
\* Lines 28-39: a missing video returns None; an existing thumbnail is
\* removed first.
G1Enter(t, videoExists) ==
    IF videoExists
    THEN [t EXCEPT !.fn = "generate_thumbnail", !.pc = "probe", !.gens = @ + 1]
    ELSE [t EXCEPT !.fn = "generate_thumbnail", !.pc = "done", !.ret = "None",
                   !.gens = @ + 1]

G1Start(videoExists) ==
    /\ th.pc = "idle"
    /\ th' = G1Enter([NoCall EXCEPT !.before = outFile], videoExists)
    /\ outFile' = IF videoExists THEN "absent" ELSE outFile
    /\ prevEnsure' = NoEnsure
    /\ pair' = NoPair
    /\ UNCHANGED dbVars

\* Lines 42-43: ffmpeg.probe; any exception returns None.
G1Probe(ok) ==
    /\ th.fn = "generate_thumbnail"
    /\ th.pc = "probe"
    /\ th' = IF ok THEN [th EXCEPT !.pc = "run"]
             ELSE [th EXCEPT !.pc = "done", !.ret = "None"]
    /\ UNCHANGED <<outFile, prevEnsure, pair>>
    /\ UNCHANGED dbVars

\* Line 65: ffmpeg.run
G1Run(exit, w) ==
    /\ th.fn = "generate_thumbnail"
    /\ th.pc = "run"
    /\ exit = "oserror" => w = "keep"
    /\ outFile' = Written(outFile, w)
    /\ th' = [th EXCEPT !.pc = "check", !.calls = @ + 1, !.exit = exit,
                        !.allFailed = @ /\ exit # "ok"]
    /\ UNCHANGED <<prevEnsure, pair>>
    /\ UNCHANGED dbVars

\* Lines 67-83: the path if the output exists and is not empty, else None;
\* nothing is removed.
G1Check ==
    /\ th.fn = "generate_thumbnail"
    /\ th.pc = "check"
    /\ th' = IF th.exit = "ok" /\ outFile \notin {"absent", "zero"}
             THEN [th EXCEPT !.pc = "done", !.ret = "path"]
             ELSE [th EXCEPT !.pc = "done", !.ret = "None"]
    /\ UNCHANGED <<outFile, prevEnsure, pair>>
    /\ UNCHANGED dbVars

\* ----------------------------------------- thumbnail.ensure_thumbnail
\* Line 102: if not thumb_path.exists()
NeedsGenerateMutant(f) == TRUE

NeedsGenerate(f) == f = "absent"

\* A completed ensure_thumbnail call is put on record; the second of two
\* consecutive calls completes the pair.
Record(ret, gens, existed) ==
    LET this == [set |-> TRUE, ret |-> ret, gens |-> gens, file |-> outFile']
    IN /\ prevEnsure' = this
       /\ pair' = IF prevEnsure.set
                  THEN [set |-> TRUE, first |-> prevEnsure, second |-> this,
                        existed |-> existed]
                  ELSE NoPair

\* Lines 97-107: the thumbnail is there: return its relative path; else
\* call the generator.
ensure_thumbnail(videoExists) ==
    /\ th.pc = "idle"
    /\ IF NeedsGenerate(outFile)
       THEN /\ th' = G1Enter([NoCall EXCEPT !.nested = TRUE, !.before = outFile],
                             videoExists)
            /\ outFile' = IF videoExists THEN "absent" ELSE outFile
            /\ UNCHANGED <<prevEnsure, pair>>
       ELSE /\ th' = [NoCall EXCEPT !.fn = "ensure_thumbnail", !.pc = "done",
                                    !.ret = "path", !.before = outFile]
            /\ UNCHANGED outFile
            /\ Record("path", 0, TRUE)
    /\ UNCHANGED dbVars

\* Lines 104-107, back from the generator: None if it returned None.
EnsureReturn ==
    /\ th.fn = "generate_thumbnail"
    /\ th.pc = "done"
    /\ th.nested
    /\ th' = [th EXCEPT !.fn = "ensure_thumbnail", !.nested = FALSE]
    /\ UNCHANGED outFile
    /\ Record(th.ret, th.gens, th.before # "absent")
    /\ UNCHANGED dbVars

\* The call has returned.
ThReturn ==
    /\ th.pc = "done"
    /\ ~th.nested
    /\ th' = NoCall
    /\ UNCHANGED <<outFile, prevEnsure, pair>>
    /\ UNCHANGED dbVars

NextThumb ==
    \/ GtStart
    \/ \E exit \in Exits, w \in Writes : GtRun(exit, w)
    \/ GtValidate
    \/ \E v \in BOOLEAN : G1Start(v)
    \/ \E ok \in BOOLEAN : G1Probe(ok)
    \/ \E exit \in Exits, w \in Writes : G1Run(exit, w)
    \/ G1Check
    \/ \E v \in BOOLEAN : ensure_thumbnail(v)
    \/ EnsureReturn
    \/ ThReturn

\* One thumbnail call at a time on one output path.
SpecThumb == Init /\ [][NextThumb]_vars

\* ------------- extract_metadata.generate_thumbnail, two calls, one path
\* The calls share the output path and nothing else: no lock is taken
\* around the run, the validation or the clean-up.
TwStart(w) ==
    /\ tw[w].pc = "idle"
    /\ tw' = [tw EXCEPT ![w] = [IdleWorker EXCEPT !.pc = "run"]]
    /\ UNCHANGED <<scanVars, callVars, call, ws, aiVars>>

\* Line 63: subprocess.run(ffmpeg_cmd, check=True, ...); ffmpeg -y
\* overwrites whatever is at the output path.
TwRun(w, exit, wr) ==
    /\ tw[w].pc = "run"
    /\ exit = "oserror" => wr = "keep"
    /\ outFile' = Written(outFile, wr)
    /\ tw' = [tw EXCEPT ![w].pc = "validate", ![w].exit = exit]
    /\ UNCHANGED <<scanVars, th, prevEnsure, pair, call, ws, aiVars>>

\* Lines 66-97: validate the output, clean up, retry or return.
TwValidate(w) ==
    /\ tw[w].pc = "validate"
    /\ IF tw[w].exit = "ok"
       THEN IF outFile = "absent"
            THEN /\ tw' = [tw EXCEPT ![w] = Retry(tw[w])]
                 /\ UNCHANGED outFile
            ELSE IF TooSmall(outFile)
            THEN /\ outFile' = "absent"
                 /\ tw' = [tw EXCEPT ![w] = Retry(tw[w])]
            ELSE /\ tw' = [tw EXCEPT ![w].pc = "done", ![w].ret = "path"]
                 /\ UNCHANGED outFile
       ELSE IF tw[w].exit = "fail"
       THEN /\ outFile' = "absent"
            /\ tw' = [tw EXCEPT ![w] = Retry(tw[w])]
       ELSE /\ outFile' = "absent"
            /\ tw' = [tw EXCEPT ![w].pc = "done", ![w].ret = "None"]
    /\ UNCHANGED <<scanVars, th, prevEnsure, pair, call, ws, aiVars>>

\* Both calls have returned and their results have been used.
TwFinish ==
    /\ \A w \in Workers : tw[w].pc = "done"
    /\ tw' = [w \in Workers |-> IdleWorker]
    /\ UNCHANGED <<scanVars, callVars, call, ws, aiVars>>

NextPool ==
    \/ \E w \in Workers : TwStart(w)
    \/ \E w \in Workers, exit \in Exits, wr \in Writes : TwRun(w, exit, wr)
    \/ \E w \in Workers : TwValidate(w)
    \/ TwFinish

\* Two thumbnail generations on one output path, interleaved freely.
SpecPool == Init /\ [][NextPool]_vars

\* ------------------------------------------------- text, as characters
Digits == <<"0", "1", "2", "3", "4", "5", "6", "7", "8", "9">>

IsDigit(c) == \E d \in DOMAIN Digits : Digits[d] = c

DigitValue(c) == (CHOOSE d \in DOMAIN Digits : Digits[d] = c) - 1

\* str(n) for a natural number.
RECURSIVE ToStr(_)
ToStr(n) == IF n < 10 THEN <<Digits[n + 1]>>
            ELSE ToStr(n \div 10) \o <<Digits[(n % 10) + 1]>>

\* f"{n:02d}"
Pad2(n) == IF n < 10 THEN <<"0">> \o ToStr(n) ELSE ToStr(n)

\* int(text) for a text of decimal digits; -1 stands for ValueError.
RECURSIVE ToInt(_)
ToInt(t) ==
    IF t = <<>> THEN -1
    ELSE IF ~IsDigit(t[Len(t)]) THEN -1
    ELSE IF Len(t) = 1 THEN DigitValue(t[1])
    ELSE LET rest == ToInt(SubSeq(t, 1, Len(t) - 1))
         IN IF rest < 0 THEN -1 ELSE rest * 10 + DigitValue(t[Len(t)])

\* text.split(sep)
RECURSIVE Split(_, _)
Split(t, sep) ==
    IF \A i \in DOMAIN t : t[i] # sep THEN <<t>>
    ELSE LET i == CHOOSE k \in DOMAIN t :
                      t[k] = sep /\ \A m \in 1..(k - 1) : t[m] # sep
         IN <<SubSeq(t, 1, i - 1)>> \o Split(SubSeq(t, i + 1, Len(t)), sep)

\* ------------------------------- format_duration (scripts/scan_videos.py)
\* MM:SS below one hour, HH:MM:SS from one hour on.
format_duration(seconds) ==
    LET hours == seconds \div 3600
        minutes == (seconds % 3600) \div 60
        secs == seconds % 60
    IN IF hours > 0
       THEN Pad2(hours) \o <<":">> \o Pad2(minutes) \o <<":">> \o Pad2(secs)
       ELSE Pad2(minutes) \o <<":">> \o Pad2(secs)

\* ------------------------ format_duration (scripts/maintenance/durations.py)
\* "Unknown" for a falsy argument, else always HH:MM:SS.
durations_format_duration(seconds) ==
    IF seconds = 0
    THEN <<"U", "n", "k", "n", "o", "w", "n">>
    ELSE Pad2(seconds \div 3600) \o <<":">> \o Pad2((seconds % 3600) \div 60)
         \o <<":">> \o Pad2(seconds % 60)

\* Reading a formatted duration back: the fields between the colons,
\* seconds last; -1 when a field is not a number.
Reparse(t) ==
    LET f == Split(t, ":")
        v == [i \in DOMAIN f |-> ToInt(f[i])]
    IN IF Len(f) \notin {2, 3} \/ \E i \in DOMAIN f : v[i] < 0 THEN -1
       ELSE IF Len(f) = 2 THEN v[1] * 60 + v[2]
       ELSE v[1] * 3600 + v[2] * 60 + v[3]

CallFormatDuration ==
    /\ call.fn = "none"
    /\ call' = [call EXCEPT !.fn = "format_duration",
                            !.ret = format_duration(call.arg)]
    /\ UNCHANGED <<scanVars, callVars, tw, ws, aiVars>>

CallDurationsFormatDuration ==
    /\ call.fn = "none"
    /\ call' = [call EXCEPT !.fn = "durations.format_duration",
                            !.ret = durations_format_duration(call.arg)]
    /\ UNCHANGED <<scanVars, callVars, tw, ws, aiVars>>

\* Every whole number of seconds up to the bound, formatted by either
\* function.
InitFmt ==
    /\ DbInit /\ ThInit /\ TwInit /\ WsInit /\ AiInit /\ fkOn = FALSE
    /\ call \in {NoCallYet(n) : n \in 0..MaxSeconds}

NextFmt ==
    \/ CallFormatDuration
    \/ CallDurationsFormatDuration

SpecFmt == InitFmt /\ [][NextFmt]_vars

\* ------------------------------------ format_fps (scripts/scan_videos.py)
\* The characters of a frame-rate text: digits, the slash, and one
\* character that belongs in no number.
FpsChars == {"0", "1", "3", "/", "x"}

FpsTexts == UNION {[1..n -> FpsChars] : n \in 0..MaxLen}

\* A float result is kept as a whole number of units of 1/scale.
Float(scaled, scale) == [kind |-> "float", scaled |-> scaled, scale |-> scale]

Raised(e) == [kind |-> "raises", scaled |-> 0, scale |-> 1, error |-> e]

\* round(n / d, digits) with scale = 10^digits: the nearest multiple of
\* 1/scale, an exact tie going to the even one.
Round(n, d, scale) ==
    LET q == (n * scale) \div d
        r == (n * scale) % d
    IN IF 2 * r < d THEN q
       ELSE IF 2 * r > d THEN q + 1
       ELSE IF q % 2 = 0 THEN q ELSE q + 1

\* except (ValueError, ZeroDivisionError): return 0.0
CatchesMutant(e) == e = "ValueError"

Catches(e) == e \in {"ValueError", "ZeroDivisionError"}

Except(e, scale) == IF Catches(e) THEN Float(0, scale) ELSE Raised(e)

format_fps(t) ==
    IF \E i \in DOMAIN t : t[i] = "/"
    THEN LET parts == Split(t, "/")
         IN IF Len(parts) # 2 \/ \E i \in DOMAIN parts : ToInt(parts[i]) < 0
            THEN Except("ValueError", 100)
            ELSE IF ToInt(parts[2]) = 0
            THEN Except("ZeroDivisionError", 100)
            ELSE Float(Round(ToInt(parts[1]), ToInt(parts[2]), 100), 100)
    ELSE IF ToInt(t) < 0
    THEN Except("ValueError", 100)
    ELSE Float(ToInt(t) * 100, 100)

\* ------------- extract_video_metadata, lines 145-151 and 159: the fps
\* num, den = map(float, r_frame_rate.split('/')); 0 for a zero
\* denominator; rounded to three places.
parse_r_frame_rate(t) ==
    LET parts == Split(t, "/")
    IN IF Len(parts) # 2 \/ \E i \in DOMAIN parts : ToInt(parts[i]) < 0
       THEN Except("ValueError", 1000)
       ELSE IF ToInt(parts[2]) = 0
       THEN Float(0, 1000)
       ELSE Float(Round(ToInt(parts[1]), ToInt(parts[2]), 1000), 1000)

CallFormatFps ==
    /\ call.fn = "none"
    /\ call' = [call EXCEPT !.fn = "format_fps", !.ret = format_fps(call.arg)]
    /\ UNCHANGED <<scanVars, callVars, tw, ws, aiVars>>

CallParseRFrameRate ==
    /\ call.fn = "none"
    /\ call' = [call EXCEPT !.fn = "extract_video_metadata",
                            !.ret = parse_r_frame_rate(call.arg)]
    /\ UNCHANGED <<scanVars, callVars, tw, ws, aiVars>>

InitFps ==
    /\ DbInit /\ ThInit /\ TwInit /\ WsInit /\ AiInit /\ fkOn = FALSE
    /\ call \in {NoCallYet(t) : t \in FpsTexts}

NextFps ==
    \/ CallFormatFps
    \/ CallParseRFrameRate

\* Every frame-rate text up to the bound, parsed by either parser.
SpecFps == InitFps /\ [][NextFps]_vars

\* ------------------------------------------- WebSocketApp (websocket.py)
SUPPORTED_PROTOCOLS == {"mam-protocol"}

\* What a client may offer in Sec-WebSocket-Protocol: nothing, one
\* subprotocol, or a list.
Offers == {<<>>, <<"mam-protocol">>, <<"other">>, <<"other", "mam-protocol">>}

\* get_protocol: the first offered subprotocol that is supported, else None.
get_protocol(offer) ==
    IF \E i \in DOMAIN offer : offer[i] \in SUPPORTED_PROTOCOLS
    THEN offer[CHOOSE i \in DOMAIN offer :
                   /\ offer[i] \in SUPPORTED_PROTOCOLS
                   /\ \A k \in 1..(i - 1) : offer[k] \notin SUPPORTED_PROTOCOLS]
    ELSE "None"

\* The messages a client sends that handle_message answers.
Requests == {"handshake", "ping", "other"}

\* handle_message: the type of the response to a message of a type.
ResponseTypeMutant(type) ==
    CASE type = "handshake" -> "handshake_response"
      [] type = "ping" -> "handshake_response"
      [] OTHER -> type

ResponseType(type) ==
    CASE type = "handshake" -> "handshake_response"
      [] type = "ping" -> "pong"
      [] OTHER -> type

\* The response to a message, with the fields the protocol names.
Response(c, type) ==
    IF type = "handshake"
    THEN [type |-> ResponseType(type), status |-> "success",
          protocol |-> ws.conn[c].protocol]
    ELSE [type |-> ResponseType(type), status |-> "none", protocol |-> "none"]

Welcome(protocol) == [type |-> "welcome", status |-> "none", protocol |-> protocol]

Broadcast == [type |-> "broadcast", status |-> "none", protocol |-> "none"]

\* __call__, lines 167-190: a request without a supported subprotocol or
\* without an upgraded socket is answered 400; else the connection is
\* added to active_connections and the welcome is sent.  When the send
\* raises, the finally clause removes the connection and the handler
\* returns.
WsAccept(c, offer, upgraded, sendOk) ==
    /\ ws.conn[c].pc = "none"
    /\ IF get_protocol(offer) = "None" \/ ~upgraded
       THEN ws' = [ws EXCEPT !.conn[c].pc = "refused"]
       ELSE IF sendOk
       THEN ws' = [ws EXCEPT !.conn[c] =
                               [NoConn EXCEPT !.pc = "loop",
                                              !.protocol = get_protocol(offer),
                                              !.sent = <<Welcome(get_protocol(offer))>>],
                             !.active = @ \cup {c}]
       ELSE ws' = [ws EXCEPT !.conn[c] =
                               [NoConn EXCEPT !.pc = "returned",
                                              !.protocol = get_protocol(offer),
                                              !.dead = TRUE]]
    /\ UNCHANGED <<scanVars, callVars, tw, call, aiVars>>

\* Lines 193-199 with handle_message: a message that calls for a response
\* is answered; when the send raises WebSocketError, handle_message
\* removes the connection from active_connections and the loop goes on.
WsMessage(c, type, sendOk) ==
    /\ ws.conn[c].pc = "loop"
    /\ ~ws.conn[c].dead
    /\ Len(ws.conn[c].reqs) < MaxMsgs
    /\ ws' = IF sendOk
             THEN [ws EXCEPT !.conn[c].reqs = Append(@, type),
                             !.conn[c].sent = Append(@, Response(c, type))]
             ELSE [ws EXCEPT !.conn[c].reqs = Append(@, type),
                             !.conn[c].dead = TRUE,
                             !.active = @ \ {c}]
    /\ UNCHANGED <<scanVars, callVars, tw, call, aiVars>>

\* An empty message or one that is not JSON is ignored.
WsIgnored(c) ==
    /\ ws.conn[c].pc = "loop"
    /\ ~ws.conn[c].dead
    /\ UNCHANGED ws
    /\ UNCHANGED <<scanVars, callVars, tw, call, aiVars>>

\* receive() returns None or raises WebSocketError: the loop ends, the
\* finally clause removes the connection, the handler returns.
WsDisconnect(c) ==
    /\ ws.conn[c].pc = "loop"
    /\ ws' = [ws EXCEPT !.conn[c].pc = "returned", !.active = @ \ {c}]
    /\ UNCHANGED <<scanVars, callVars, tw, call, aiVars>>

\* broadcast(): the message is sent to every active connection; one the
\* send fails on is removed from active_connections.
broadcast(failed) ==
    /\ ws.active # {}
    /\ failed \subseteq ws.active
    /\ \A c \in ws.active : Len(ws.conn[c].sent) <= Len(ws.conn[c].reqs) + 1
    /\ ws' = [ws EXCEPT
                !.conn = [c \in Conns |->
                            IF c \notin ws.active THEN ws.conn[c]
                            ELSE IF c \in failed
                            THEN [ws.conn[c] EXCEPT !.dead = TRUE]
                            ELSE [ws.conn[c] EXCEPT !.sent = Append(@, Broadcast)]],
                !.active = @ \ failed]
    /\ UNCHANGED <<scanVars, callVars, tw, call, aiVars>>

\* The client connects again.
WsReset(c) ==
    /\ ws.conn[c].pc \in {"refused", "returned"}
    /\ ws' = [ws EXCEPT !.conn[c] = NoConn]
    /\ UNCHANGED <<scanVars, callVars, tw, call, aiVars>>

NextWs ==
    \/ \E c \in Conns, offer \in Offers, u, ok \in BOOLEAN : WsAccept(c, offer, u, ok)
    \/ \E c \in Conns, type \in Requests, ok \in BOOLEAN : WsMessage(c, type, ok)
    \/ \E c \in Conns : WsIgnored(c)
    \/ \E c \in Conns : WsDisconnect(c)
    \/ \E failed \in SUBSET Conns : broadcast(failed)
    \/ \E c \in Conns : WsReset(c)

\* The connections to /api/v1/ws and the broadcasts to them.
SpecWs == Init /\ [][NextWs]_vars

\* ================================================================ claims
NoDuplicatePaths == \A a, b \in assets : a.file_path = b.file_path => a = b

IsScan(s) == h[s].kind \in {"add_directory", "scan"}

\* The enumerated files whose processing raises or yields no metadata.
Failing(s) == {p \in h[s].scanned : files[p] # "ok"}

\* C1: a scan run a second time, with no change to the files or the
\* tables since the first run, leaves as many asset rows as the first run
\* left, and no two asset rows share a file_path.
C1_IdempotentRescan ==
    /\ rescan.set => rescan.after = rescan.before
    /\ NoDuplicatePaths

C1_Witness ==
    /\ rescan.set
    /\ rescan.after >= 1
    /\ stable.key[1] = "process_directory"

\* C2: when exactly one of the enumerated files fails and the others are
\* new, the scan answers without an error and each of the other files is
\* a committed asset row that the scan reports.
C2_PartialFailureIsolation ==
    \A s \in Procs :
        (/\ h[s].pc = "done"
         /\ IsScan(s)
         /\ Cardinality(Failing(s)) = 1
         /\ h[s].scanned \cap h[s].pre = {})
        => /\ h[s].resp = "ok"
           /\ \A p \in h[s].scanned \ Failing(s) :
                  p \in PathsOf(assets) /\ p \in PathsOf(h[s].out)

\* C3: every committed asset row has exactly one committed
\* ProcessingResult row, and every committed ProcessingResult row has its
\* asset row.
C3_AtomicCreateAndEnrich ==
    /\ \A a \in assets : Cardinality({r \in results : r.asset_id = a.id}) = 1
    /\ \A r \in results : \E a \in assets : a.id = r.asset_id

Raced(s) == h[s].lost \ h[s].pre

\* C5: with two scans running at once no two asset rows share a
\* file_path, and a scan that lost the race on a path answers without an
\* error with each of its other new files persisted.
C5_ConcurrentScans ==
    /\ NoDuplicatePaths
    /\ \A s \in Procs :
           (h[s].pc = "done" /\ IsScan(s) /\ Raced(s) # {})
           => /\ h[s].resp = "ok"
              /\ \A p \in h[s].scanned \ h[s].lost :
                     files[p] = "ok" => p \in PathsOf(assets)

\* C6 (as stated): one call of generate_thumbnail runs the tool at most
\* max_retries times; when attempt k is the first to leave an output of at
\* least 100 bytes the call returns the path right after attempt k with
\* the file in place; and no file is at the output path when a further
\* attempt starts.
C6_ThumbnailRetryBound ==
    th.fn = "generate_thumbnail_retry" =>
        /\ th.calls <= max_retries
        /\ th.firstBig > 0 =>
               \/ th.pc = "validate" /\ th.calls = th.firstBig
               \/ /\ th.pc = "done"
                  /\ th.ret = "path"
                  /\ th.calls = th.firstBig
                  /\ outFile = "big"
        /\ (th.pc = "run" /\ th.attempt > 0) => outFile = "absent"

\* C6 (amended): as C6, for the first attempt k on which the tool exits
\* successfully with an output of at least 100 bytes at the output path.
C6_RetryBoundOnSuccessfulExit ==
    th.fn = "generate_thumbnail_retry" =>
        /\ th.calls <= max_retries
        /\ th.firstGood > 0 =>
               \/ th.pc = "validate" /\ th.calls = th.firstGood
               \/ /\ th.pc = "done"
                  /\ th.ret = "path"
                  /\ th.calls = th.firstGood
                  /\ outFile = "big"
        /\ (th.pc = "run" /\ th.attempt > 0) => outFile = "absent"

C6_Witness ==
    /\ th.fn = "generate_thumbnail_retry"
    /\ th.pc = "done"
    /\ th.ret = "path"
    /\ th.firstGood = max_retries
    /\ th.firstBig < th.firstGood
    /\ th.firstBig > 0

\* C7: a generator call on which every run of the tool failed returns
\* None and leaves no file at the output path.
C7_ThumbnailTotalFailure ==
    (/\ th.fn \in {"generate_thumbnail_retry", "generate_thumbnail"}
     /\ th.pc = "done"
     /\ th.calls >= 1
     /\ th.allFailed)
    => th.ret = "None" /\ outFile = "absent"

C9_AssetDeleteCascade ==
    \A s \in Procs :
        (/\ h[s].pc = "done"
         /\ h[s].kind = "delete_asset"
         /\ \E a \in lastOp.assets : a.id = h[s].arg)
        => /\ assets = {a \in lastOp.assets : a.id # h[s].arg}
           /\ results = {r \in lastOp.results : r.asset_id # h[s].arg}
           /\ asset_tags = {l \in lastOp.asset_tags : l[1] # h[s].arg}
           /\ tags = lastOp.tags

\* C10: after DELETE /directories/<id> of an existing directory every
\* asset row is still there, the rows that referenced the directory with
\* a null directory reference and their other columns as before.
C10_DirectoryDeleteSetNull ==
    \A s \in Procs :
        (/\ h[s].pc = "done"
         /\ h[s].kind = "remove_directory"
         /\ \E r \in lastOp.dirs : r.id = h[s].arg)
        => /\ dirs = {r \in lastOp.dirs : r.id # h[s].arg}
           /\ assets = {IF a.directory_id = h[s].arg
                        THEN [a EXCEPT !.directory_id = 0] ELSE a : a \in lastOp.assets}

\* The file a scan has probed and is about to persist.
InHand(s) == h[s].pc \in {"pd_persist", "rt_insert"}

\* The external tools among the steps run for a file.
ExternalTools(steps) ==
    {steps[i][2] : i \in DOMAIN steps} \cap {"ffmpeg", "ffprobe"}

\* C11: no external tool is run for a zero-byte file, no asset row is
\* stored for it, and a scan that met one stores each valid file beside
\* it as exactly one asset row.
C11_ZeroByteRejected ==
    /\ \A a \in assets : files[a.file_path] # "empty"
    /\ \A s \in Procs :
           /\ (InHand(s) /\ files[Head(h[s].todo)] = "empty")
              => ExternalTools(h[s].steps) = {}
           /\ (/\ h[s].pc = "done"
               /\ h[s].resp = "ok"
               /\ h[s].err # "OSError"
               /\ \E p \in h[s].scanned : files[p] = "empty")
              => \A p \in h[s].scanned :
                     files[p] = "ok"
                     => Cardinality({a \in assets : a.file_path = p}) = 1

\* The file extract_metadata was last called on by a scan.
LastProbed(s) == IF InHand(s) THEN Head(h[s].todo) ELSE h[s].cur

\* C12: extract_metadata returns a record for every file it is called on;
\* when probing the file fails, the record is the minimal one that
\* carries an error field, and the scanner goes on to persist the file.
C12_ProberFailureRecord ==
    \A s \in Procs :
        h[s].meta # "none"
        => /\ h[s].meta = IF ExtractFails(LastProbed(s))
                          THEN "error_record" ELSE "record"
           /\ InHand(s)

\* The scan of s is at the top of its loop with an indexed path next.
AtIndexedPath(s) ==
    /\ h[s].pc \in {"pd_probe", "rt_check"}
    /\ h[s].todo # <<>>
    /\ Head(h[s].todo) \in PathsOf(assets)

\* C13: a scan that comes to a path already in the asset table passes it
\* by: it probes nothing, runs no tool for it, and leaves the asset rows
\* and the thumbnail files as they are.
C13_RescanSkipsIndexed ==
    [][\A s \in Procs :
          (AtIndexedPath(s) /\ h'[s] # h[s])
          => /\ h'[s].probed = h[s].probed
             /\ h'[s].steps = <<>>
             /\ thumbs' = thumbs
             /\ assets' = assets]_vars

\* What process_directory returns: its list, or [] from the outer except
\* clause; POST /scan reports the rows it added.
Returned(s) == IF h[s].err = "OSError" THEN {} ELSE h[s].out

\* The scan of s has handed its result to its caller.
HasReturned(s) ==
    \/ h[s].kind = "add_directory" /\ h[s].pc \in {"ad_finish", "done"}
    \/ h[s].kind = "scan" /\ h[s].pc = "done" /\ h[s].resp = "ok" /\ h[s].root

\* C14: the list a scan returns holds exactly the asset rows that the
\* scan committed: none that was rolled back or never committed, and all
\* of those it did commit, also when the scan stopped early on an error.
C14_ScanResultExact ==
    \A s \in Procs :
        HasReturned(s) => Returned(s) = h[s].out \cap assets

\* The request of s ran over a scan root that does not exist.
RootMissing(s) == h[s].kind \in {"add_directory", "scan"} /\ ~h[s].root

\* A step of s over a missing root leaves the asset rows, the audit rows
\* and the thumbnail files alone.
MissingRootFrame ==
    \A s \in Procs :
        (~h'[s].root /\ h'[s] # h[s])
        => /\ assets' = assets
           /\ results' = results
           /\ thumbs' = thumbs
           /\ sess'[s].newA = {}

C16_LastScannedUpdated ==
    \A s \in Procs :
        /\ h[s].stamps \subseteq h[s].passed
        /\ (h[s].pc = "done" /\ h[s].kind \in {"add_directory", "scan_directories"})
           => h[s].passed \subseteq h[s].stamps

\* C17: no asset row, committed or flushed by a request in progress, is
\* for a file whose extension is outside the supported set, whichever of
\* the creation paths (directory scan, POST /scan, index script) ran.
C17_SupportedExtension ==
    /\ \A a \in assets : files[a.file_path] # "invalid"
    /\ \A s \in Procs : \A a \in sess[s].newA : files[a.file_path] # "invalid"

C17_Witness ==
    \E s \in Procs :
        /\ h[s].kind = "index"
        /\ h[s].err = "ValueError"
        /\ files[h[s].cur] = "invalid"
        /\ \E a \in assets : a \in h[s].out

\* Every step run for the file in hand was run by extract_metadata.
ExtractOnly(steps) == \A i \in DOMAIN steps : steps[i][1] = "extract_metadata"

\* C18: a call of extract_metadata changes neither the database nor the
\* thumbnails directory, whether the file is a video or not.
C18_ProberPurity ==
    [][\A s \in Procs :
          (h'[s].probed # h[s].probed /\ ExtractOnly(h'[s].steps))
          => /\ thumbs' = thumbs
             /\ assets' = assets
             /\ results' = results
             /\ dirs' = dirs
             /\ sess' = sess]_vars

\* C19: no two asset rows share a thumbnail file: the thumbnail a scan
\* has written for one asset is not the file of another asset.
C19_ThumbnailNaming ==
    \A a, b \in assets :
        (a.file_path # b.file_path /\ Stem(a.file_path) \in thumbs)
        => Stem(b.file_path) # Stem(a.file_path)

\* The positions in steps at which the tool was run.
RunsOf(steps, tool) == {i \in DOMAIN steps : steps[i][2] = tool}

\* C20: for the file in hand the probe came first and the thumbnail tool
\* ran after it, once if the file is a video and not at all otherwise;
\* and a scan about to probe its next file holds no uncommitted row.
C20_PerFileOrdering ==
    \A s \in Procs :
        /\ InHand(s)
           => /\ Cardinality(RunsOf(h[s].steps, "ffmpeg"))
                 = IF IsVideo(Head(h[s].todo)) THEN 1 ELSE 0
              /\ \A i \in RunsOf(h[s].steps, "ffmpeg") :
                     \A j \in RunsOf(h[s].steps, "ffprobe") : j < i
        /\ h[s].pc \in {"pd_probe", "rt_check"} => sess[s].newA = {}

\* C21: every scan that has started ends: no file keeps it from reaching
\* its response.
C21_ScanTermination ==
    \A s \in Procs : (h[s].pc # "idle") ~> (h[s].pc = "done")

\* The call of w is between its first write to the output path and its
\* last validation or clean-up.
Writing(w) == tw[w].pc \in {"run", "validate"}

\* C22: two generations on one output path never have their run,
\* validation and clean-up steps in progress together, and once both
\* have returned, a call that returned the path has a valid file at it.
C22_ThumbnailWriteExclusion ==
    /\ \A v, w \in Workers : (Writing(v) /\ Writing(w)) => v = w
    /\ (\A w \in Workers : tw[w].pc = "done")
       => \A w \in Workers : tw[w].ret = "path" => outFile = "big"

\* The result is MM:SS: two fields, no hour component.
IsMinSec(t) == Len(Split(t, ":")) = 2

\* C23: reading a formatted duration back gives the seconds formatted;
\* below one hour the text is MM:SS, from one hour on HH:MM:SS; 0 gives
\* "00:00" and 3661 gives "01:01:01".
C23_DurationRoundTrip ==
    call.fn \in {"format_duration", "durations.format_duration"}
    => /\ Reparse(call.ret) = call.arg
       /\ IsMinSec(call.ret) <=> call.arg < 3600
       /\ call.arg = 0 => call.ret = <<"0", "0", ":", "0", "0">>
       /\ call.arg = 3661
          => call.ret = <<"0", "1", ":", "0", "1", ":", "0", "1">>

\* The text is N/D: two runs of digits around one slash.
IsRational(t) ==
    LET parts == Split(t, "/")
    IN Len(parts) = 2 /\ \A i \in DOMAIN parts : ToInt(parts[i]) >= 0

Numerator(t) == ToInt(Split(t, "/")[1])

Denominator(t) == ToInt(Split(t, "/")[2])

\* The text is a number without a slash.
IsPlainNumber(t) == ToInt(t) >= 0

FpsCalled == call.fn \in {"format_fps", "extract_video_metadata"}

TagRequest(s) ==
    /\ h[s].pc = "done"
    /\ h[s].kind \in {"create_tag", "update_asset"}
    /\ h[s].resp # "404"
    /\ \A i \in DOMAIN h[s].names : h[s].names[i].form # "blank"

\* C25: every stored tag name is non-empty, lower-cased and trimmed, and
\* a tag request succeeds and leaves one row per normalized name: it
\* reuses the row of a name that differs from its own only in case or
\* surrounding blanks, and creates a row only for a name not yet stored.
C25_TagNormalization ==
    /\ \A t \in tags : t.form = "plain"
    /\ \A s \in Procs :
           TagRequest(s)
           => /\ h[s].resp = "ok"
              /\ tags = lastOp.tags
                        \cup {Strip(Lower(h[s].names[i])) : i \in DOMAIN h[s].names}

StageStatuses == {"pending", "processing", "completed", "failed"}

IsResponse(m) == m.type \notin {"welcome", "broadcast"}

Responses(c) == SelectSeq(ws.conn[c].sent, IsResponse)

\* The i-th response answers the i-th request: a handshake by a
\* handshake_response with status success, a ping by a pong.
AnswersInOrder(c) ==
    \A i \in 1..Len(Responses(c)) :
        /\ i <= Len(ws.conn[c].reqs)
        /\ ws.conn[c].reqs[i] = "handshake" =>
               /\ Responses(c)[i].type = "handshake_response"
               /\ Responses(c)[i].status = "success"
        /\ ws.conn[c].reqs[i] = "ping" => Responses(c)[i].type = "pong"

WelcomeFirst(c) ==
    ws.conn[c].sent # <<>> =>
        /\ ws.conn[c].sent[1].type = "welcome"
        /\ ws.conn[c].sent[1].protocol \in SUPPORTED_PROTOCOLS
        /\ ws.conn[c].sent[1].protocol = ws.conn[c].protocol

NeverAddedWhenRefused(c) ==
    ws.conn[c].pc = "refused" => c \notin ws.active /\ ws.conn[c].sent = <<>>

\* C27 as stated: on an accepted connection the first server message is the
\* welcome naming the negotiated protocol; every handshake and every ping
\* is answered, one response per request in request order; the connection
\* is in active_connections exactly while its handler has not returned;
\* a refused request is never added.
C27_SessionProtocol ==
    \A c \in Conns :
        /\ WelcomeFirst(c)
        /\ AnswersInOrder(c)
        /\ Len(Responses(c)) = Len(ws.conn[c].reqs)
        /\ c \in ws.active <=> ws.conn[c].pc = "loop"
        /\ NeverAddedWhenRefused(c)

\* C27 as the code has it: the welcome is first; requests are answered in
\* order, one response each, up to a request whose response could not be
\* sent; the connection is in active_connections from acceptance until
\* its handler returns or a send on it fails, whichever is first; a
\* refused request is never added.
C27_SessionProtocolUntilSendFails ==
    \A c \in Conns :
        /\ WelcomeFirst(c)
        /\ AnswersInOrder(c)
        /\ ~ws.conn[c].dead => Len(Responses(c)) = Len(ws.conn[c].reqs)
        /\ ws.conn[c].dead => Len(Responses(c)) >= Len(ws.conn[c].reqs) - 1
        /\ c \in ws.active <=> (ws.conn[c].pc = "loop" /\ ~ws.conn[c].dead)
        /\ NeverAddedWhenRefused(c)

\* A connection that was welcomed, then got a handshake and a ping
\* answered, with a broadcast in between, and is still served.
C27_Witness ==
    \E c \in Conns :
        /\ ws.conn[c].pc = "loop"
        /\ c \in ws.active
        /\ ws.conn[c].reqs = <<"handshake", "ping">>
        /\ Len(Responses(c)) = 2
        /\ \E i \in DOMAIN ws.conn[c].sent : ws.conn[c].sent[i].type = "broadcast"


\* ------------------------------------ CircuitBreaker (circuit_breaker.py)
\* _handle_success: counted only while HALF_OPEN; half_open_limit of them
\* close the breaker and reset both counters.
_handle_success(b) ==
    IF b.state = "HALF_OPEN"
    THEN IF b.successful_calls + 1 >= half_open_limit
         THEN [b EXCEPT !.state = "CLOSED", !.failure_count = 0,
                        !.successful_calls = 0]
         ELSE [b EXCEPT !.successful_calls = @ + 1]
    ELSE b

\* _handle_failure: the time is stamped and the failure counted; the
\* breaker opens when it is CLOSED and the count has reached the threshold.
_handle_failure(b) ==
    LET c == [b EXCEPT !.last_failure_time = b.now, !.failure_count = @ + 1]
    IN  IF c.state = "CLOSED" /\ c.failure_count >= failure_threshold
        THEN [c EXCEPT !.state = "OPEN"]
        ELSE c

\* allow_request: TRUE when CLOSED or HALF_OPEN; when OPEN, TRUE once
\* recovery_timeout has passed since the last failure.
Allowed(b) ==
    \/ b.state \in {"CLOSED", "HALF_OPEN"}
    \/ b.state = "OPEN" /\ b.now - b.last_failure_time >= recovery_timeout

\* The state allow_request leaves behind.
allow_request(b) ==
    IF b.state = "OPEN" /\ Allowed(b) THEN [b EXCEPT !.state = "HALF_OPEN"] ELSE b

\* circuit_protected, lines 146-151: the call is rejected with RuntimeError
\* or let through to the protected function.
CbCall ==
    /\ cb.pending < 2
    /\ IF Allowed(cb)
       THEN cb' = [allow_request(cb) EXCEPT !.pending = @ + 1]
       ELSE cb' = [cb EXCEPT !.rejected = IF @ < 2 THEN @ + 1 ELSE @]
    /\ UNCHANGED <<scanVars, callVars, tw, call, ws, pm, pw>>

\* Lines 151-154: the protected function returns.
CbSuccess ==
    /\ cb.pending > 0
    /\ cb' = [_handle_success(cb) EXCEPT !.pending = @ - 1]
    /\ UNCHANGED <<scanVars, callVars, tw, call, ws, pm, pw>>

\* Lines 155-159: the protected function raises.
CbFailure ==
    /\ cb.pending > 0
    /\ cb.failure_count < MaxFailures
    /\ cb' = [_handle_failure(cb) EXCEPT !.pending = @ - 1]
    /\ UNCHANGED <<scanVars, callVars, tw, call, ws, pm, pw>>

\* time.time() advances, half a recovery_timeout at a time.
CbTick ==
    /\ cb.now + 30 <= MaxTime
    /\ cb' = [cb EXCEPT !.now = @ + 30]
    /\ UNCHANGED <<scanVars, callVars, tw, call, ws, pm, pw>>

NextCb ==
    \/ CbCall
    \/ CbSuccess
    \/ CbFailure
    \/ CbTick

\* Calls through one circuit breaker.
SpecCb == Init /\ [][NextCb]_vars

\* A protected call has failed in this step.
CallFailed == cb'.failure_count = cb.failure_count + 1

\* C28: the breaker opens only from CLOSED with failure_count at the
\* threshold; it leaves OPEN only for HALF_OPEN and only once
\* recovery_timeout has passed since the last failure; a failed call while
\* HALF_OPEN sends it back to OPEN; it goes from HALF_OPEN to CLOSED only
\* on the success that completes half_open_limit successes, with
\* failure_count and successful_calls back at 0.
C28_RecoveryTrial ==
    [][ /\ (cb.state # "OPEN" /\ cb'.state = "OPEN") =>
               /\ cb.state = "CLOSED"
               /\ cb'.failure_count >= failure_threshold
        /\ (cb.state = "OPEN" /\ cb'.state # "OPEN") =>
               /\ cb'.state = "HALF_OPEN"
               /\ cb.now - cb.last_failure_time >= recovery_timeout
        /\ (cb.state = "HALF_OPEN" /\ CallFailed) => cb'.state = "OPEN"
        /\ (cb.state = "HALF_OPEN" /\ cb'.state = "CLOSED") =>
               /\ cb.successful_calls + 1 = half_open_limit
               /\ cb'.failure_count = 0
               /\ cb'.successful_calls = 0
      ]_vars


\* ------------------------------- ProcessorManager (processor_manager.py)
\* The names a caller may request: the two registered and one that is not.
ProcessorNames == Registered \cup {"unknown"}

RequestedLists == UNION {[1..n -> ProcessorNames] : n \in 0..MaxNames}

\* Lines 136-155: one task per requested name that is registered and
\* enabled, in request order; the others are skipped.
Runnable(name) == name \in Registered /\ name \in pm.enabled

RECURSIVE Tasks(_)
Tasks(processors) ==
    IF processors = <<>> THEN <<>>
    ELSE IF Runnable(Head(processors))
    THEN <<Head(processors)>> \o Tasks(Tail(processors))
    ELSE Tasks(Tail(processors))

\* What asyncio.gather returns for a task: the data the processor produced
\* or the exception it raised, marked here with the processor's name.
GatherResult(name, raises) ==
    [status |-> IF name \in raises THEN "error" ELSE "success", by |-> name]

Min(a, b) == IF a < b THEN a ELSE b

\* Lines 161-172: zip(processors, completed_results) pairs the i-th
\* requested name with the i-th completed result; a later pair with the
\* same name overwrites the earlier entry.
ZipResults(processors, tasks, raises) ==
    LET n == Min(Len(processors), Len(tasks))
        LastAt(name) == CHOOSE i \in 1..n :
                            /\ processors[i] = name
                            /\ \A k \in (i + 1)..n : processors[k] # name
    IN  [name \in {processors[i] : i \in 1..n} |->
            GatherResult(tasks[LastAt(name)], raises)]

process_media(processors, raises) ==
    /\ pm' = [pm EXCEPT !.last = [requested |-> processors,
                                  tasks |-> Tasks(processors),
                                  results |-> ZipResults(processors,
                                                  Tasks(processors), raises)]]
    /\ UNCHANGED <<scanVars, callVars, tw, call, ws, cb, pw>>

\* BaseProcessor.enable and disable.
PmEnable(name) ==
    /\ name \notin pm.enabled
    /\ pm' = [pm EXCEPT !.enabled = @ \cup {name}]
    /\ UNCHANGED <<scanVars, callVars, tw, call, ws, cb, pw>>

PmDisable(name) ==
    /\ name \in pm.enabled
    /\ pm' = [pm EXCEPT !.enabled = @ \ {name}]
    /\ UNCHANGED <<scanVars, callVars, tw, call, ws, cb, pw>>

NextPm ==
    \/ \E processors \in RequestedLists, raises \in SUBSET Registered :
           process_media(processors, raises)
    \/ \E name \in Registered : PmEnable(name)
    \/ \E name \in Registered : PmDisable(name)

\* Calls of process_media with processors enabled and disabled between.
SpecPm == Init /\ [][NextPm]_vars

\* C29: in the map process_media returns, every entry stands under the
\* name of the processor that produced it; a requested name that was
\* skipped has no entry; every processor that ran has its entry.
C29_ResultAttribution ==
    /\ \A name \in DOMAIN pm.last.results : pm.last.results[name].by = name
    /\ \A i \in DOMAIN pm.last.requested :
           pm.last.requested[i] \in DOMAIN pm.last.results =>
               \E k \in DOMAIN pm.last.tasks : pm.last.tasks[k] = pm.last.requested[i]
    /\ \A k \in DOMAIN pm.last.tasks : pm.last.tasks[k] \in DOMAIN pm.last.results


\* ----------------------------- ProcessingManager (processing_manager.py)
\* The ids that have been queued so far.
Queued == {pw.queue[i] : i \in DOMAIN pw.queue} \cup
          {pw.processed[i] : i \in DOMAIN pw.processed} \cup
          (IF pw.pc = "process" THEN {pw.asset_id} ELSE {})

\* queue_asset: the id is put at the end of the queue.
queue_asset(id) ==
    /\ id \notin Queued
    /\ pw' = [pw EXCEPT !.queue = Append(@, id)]
    /\ UNCHANGED <<scanVars, callVars, tw, call, ws, cb, pm>>

\* create_app starts the loop; start_processing_worker, line 42.
start_processing_worker ==
    /\ pw.pc = "none"
    /\ pw' = [pw EXCEPT !.is_processing = TRUE, !.pc = "while"]
    /\ UNCHANGED <<scanVars, callVars, tw, call, ws, cb, pm>>

\* Line 43: the loop goes on while _is_processing is set.
PwWhile ==
    /\ pw.pc = "while"
    /\ pw' = [pw EXCEPT !.pc = IF pw.is_processing THEN "get" ELSE "exited"]
    /\ UNCHANGED <<scanVars, callVars, tw, call, ws, cb, pm>>

\* Line 46: await self._processing_queue.get() returns once the queue
\* holds an id, and not before.
PwGet ==
    /\ pw.pc = "get"
    /\ pw.queue # <<>>
    /\ pw' = [pw EXCEPT !.asset_id = Head(pw.queue), !.queue = Tail(pw.queue),
                        !.pc = "process"]
    /\ UNCHANGED <<scanVars, callVars, tw, call, ws, cb, pm>>

\* Lines 48-59: the asset is processed; an exception is logged; in both
\* cases task_done() and back to the loop's test.
PwProcess(raised) ==
    /\ pw.pc = "process"
    /\ pw' = [pw EXCEPT !.processed = Append(@, pw.asset_id), !.pc = "while"]
    /\ UNCHANGED <<scanVars, callVars, tw, call, ws, cb, pm>>

\* stop_processing_worker: the flag is cleared, nothing else.
stop_processing_worker ==
    /\ pw.pc \notin {"none", "exited"}
    /\ ~pw.stopped
    /\ pw' = [pw EXCEPT !.is_processing = FALSE, !.stopped = TRUE]
    /\ UNCHANGED <<scanVars, callVars, tw, call, ws, cb, pm>>

\* The steps of the worker loop, which the event loop runs when it can.
PwStep ==
    \/ PwWhile
    \/ PwGet
    \/ \E raised \in BOOLEAN : PwProcess(raised)

NextPw ==
    \/ \E id \in 1..MaxQueued : queue_asset(id)
    \/ start_processing_worker
    \/ stop_processing_worker
    \/ PwStep

\* The worker loop, assets queued and the stop; the loop is not starved.
SpecPw == Init /\ [][NextPw]_vars /\ WF_vars(PwStep)

ProcessedOnce ==
    \A i, k \in DOMAIN pw.processed :
        pw.processed[i] = pw.processed[k] => i = k

\* C30: once stop_processing_worker has been called the worker loop
\* exits, whatever the queue holds, and no queued asset id is processed
\* more than once.
C30_WorkerShutdown ==
    /\ pw.stopped ~> (pw.pc = "exited")
    /\ []ProcessedOnce

====
